---------------------------- MODULE Spec2Model ----------------------------
(***************************************************************************)
(* Model of the display/validation utilities of cosmos-multisig-ui         *)
(* (abbreviateLongString, printableCoin, printableCoins, exampleAddress,   *)
(* examplePubkey, checkAddress, explorerLinkTx).                           *)
(*                                                                         *)
(* The state is the configuration (env), the call in progress (fn, its     *)
(* arguments input, coins, index, its position pc, its locals data and i), *)
(* the outcome of the call, and the last finished call of an example       *)
(* generator (prev).  The locals of a finished call are dead: they keep    *)
(* their last value until the next call initialises them.                  *)
(*                                                                         *)
(* JavaScript strings are sequences of one-character strings.  The values  *)
(* undefined and null are the one-element sequences Undefined and Null,    *)
(* whose element is not a character.  Fixed message texts are single       *)
(* elements of a sequence (they are never taken apart).                    *)
(***************************************************************************)
EXTENDS Integers, Sequences, FiniteSets

VARIABLES env, pc, fn, input, coins, index, data, i, outcome, prev

vars == <<env, pc, fn, input, coins, index, data, i, outcome, prev>>

-----------------------------------------------------------------------------
(* Bounds of the model *)

\* longest string given to abbreviateLongString
MaxStrLen == 14
\* longest amount string of a coin
MaxAmountLen == 3
\* largest index given to exampleAddress / examplePubkey
MaxIndex == 3
\* payload lengths of the addresses given to checkAddress: 20 +- PayloadSlack
PayloadSlack == 1
\* longest transaction hash given to explorerLinkTx
MaxHashLen == 3

-----------------------------------------------------------------------------
(* JavaScript values and strings *)

Undefined == <<"#undefined">>
Null == <<"#null">>

IsNullish(v) == v = Undefined \/ v = Null

\* ToString of a value that is a string, undefined or null
JSToString(v) ==
  IF v = Undefined THEN <<"u", "n", "d", "e", "f", "i", "n", "e", "d">>
  ELSE IF v = Null THEN <<"n", "u", "l", "l">>
  ELSE v

\* ToBoolean of a value that is a string, undefined or null
Truthy(v) == ~IsNullish(v) /\ v # <<>>

\* String.prototype.slice(from, to) with 0-based, already clamped bounds
Slice(s, from, to) == IF to <= from THEN <<>> ELSE SubSeq(s, from + 1, to)

\* String.prototype.slice(-n)
SliceLast(s, n) == IF n >= Len(s) THEN s ELSE SubSeq(s, Len(s) - n + 1, Len(s))

LowerChars == <<"a", "b", "c", "d", "e", "f", "g", "h", "i", "j", "k", "l", "m",
                "n", "o", "p", "q", "r", "s", "t", "u", "v", "w", "x", "y", "z">>
UpperChars == <<"A", "B", "C", "D", "E", "F", "G", "H", "I", "J", "K", "L", "M",
                "N", "O", "P", "Q", "R", "S", "T", "U", "V", "W", "X", "Y", "Z">>
DigitChars == <<"0", "1", "2", "3", "4", "5", "6", "7", "8", "9">>

Range(s) == {s[k] : k \in 1..Len(s)}

\* 1-based position of c in s (c occurs in s)
IndexIn(c, s) == CHOOSE k \in 1..Len(s) : s[k] = c

UpperChar(c) == IF c \in Range(LowerChars) THEN UpperChars[IndexIn(c, LowerChars)] ELSE c
LowerChar(c) == IF c \in Range(UpperChars) THEN LowerChars[IndexIn(c, UpperChars)] ELSE c

\* String.prototype.toUpperCase / toLowerCase
ToUpperCase(s) == [k \in 1..Len(s) |-> UpperChar(s[k])]
ToLowerCase(s) == [k \in 1..Len(s) |-> LowerChar(s[k])]

\* String.prototype.startsWith
StartsWith(s, p) == Len(s) >= Len(p) /\ SubSeq(s, 1, Len(p)) = p

\* outcomes of a call
Returned(v) == [kind |-> "return", val |-> v]
Thrown(name, msg) == [kind |-> "throw", val |-> <<name, ": ">> \o msg]
NoOutcome == [kind |-> "none", val |-> <<>>]

-----------------------------------------------------------------------------
(* abbreviateLongString *)

AbbreviateThreshold == 13
AbbreviateKeep == 5
Ellipsis == <<".", ".", ".">>

abbreviateLongString_keepsFour(longString) ==
  IF Len(longString) < AbbreviateThreshold
  THEN longString
  ELSE Slice(longString, 0, AbbreviateKeep) \o Ellipsis
         \o SliceLast(longString, AbbreviateKeep - 1)

abbreviateLongString(longString) ==
  IF Len(longString) < AbbreviateThreshold
  THEN longString
  ELSE Slice(longString, 0, AbbreviateKeep) \o Ellipsis
         \o SliceLast(longString, AbbreviateKeep)

\* strings of length n that are all "a" except for at most one "b"
OneHot(n) ==
  {[k \in 1..n |-> "a"]} \cup {[k \in 1..n |-> IF k = p THEN "b" ELSE "a"] : p \in 1..n}

AbbreviateInputs == UNION {OneHot(n) : n \in 0..MaxStrLen}

-----------------------------------------------------------------------------
(* Decimal (fixed-point parser/formatter used by printableCoin) *)

DigitValue(c) == IndexIn(c, DigitChars) - 1

\* atomics.match(/^[0-9]+$/)
IsNumeral(s) == Len(s) > 0 /\ \A k \in 1..Len(s) : s[k] \in Range(DigitChars)

RECURSIVE ParseNat(_)
ParseNat(s) ==
  IF s = <<>> THEN 0
  ELSE 10 * ParseNat(SubSeq(s, 1, Len(s) - 1)) + DigitValue(s[Len(s)])

RECURSIVE NatToString(_)
NatToString(n) ==
  IF n < 10 THEN <<DigitChars[n + 1]>>
  ELSE NatToString(n \div 10) \o <<DigitChars[(n % 10) + 1]>>

RECURSIVE Pow10(_)
Pow10(n) == IF n = 0 THEN 1 ELSE 10 * Pow10(n - 1)

\* String.prototype.padStart(n, "0")
RECURSIVE PadStartZero(_, _)
PadStartZero(s, n) == IF Len(s) >= n THEN s ELSE PadStartZero(<<"0">> \o s, n)

\* String.prototype.replace(/0+$/, "")
RECURSIVE TrimTrailingZeros(_)
TrimTrailingZeros(s) ==
  IF s # <<>> /\ s[Len(s)] = "0" THEN TrimTrailingZeros(SubSeq(s, 1, Len(s) - 1)) ELSE s

\* Number(v) for v undefined or a string of the model: [nan, n]
Number(v) ==
  IF v = Undefined THEN [nan |-> TRUE, n |-> 0]
  ELSE IF v = Null \/ v = <<>> THEN [nan |-> FALSE, n |-> 0]
  ELSE IF IsNumeral(v) THEN [nan |-> FALSE, n |-> ParseNat(v)]
  ELSE [nan |-> TRUE, n |-> 0]

\* Decimal#toString
DecimalToString(atomics, fractionalDigits) ==
  LET factor == Pow10(fractionalDigits)
      whole == atomics \div factor
      fractional == atomics % factor
  IN IF fractional = 0 THEN NatToString(whole)
     ELSE NatToString(whole) \o <<".">>
            \o TrimTrailingZeros(PadStartZero(NatToString(fractional), fractionalDigits))

\* Decimal.fromAtomics(atomics, fractionalDigits).toString(): an outcome
FromAtomicsToString(atomics, fractionalDigits) ==
  IF fractionalDigits.nan
  THEN Thrown("Error", <<"Fractional digits is not an integer">>)
  ELSE IF fractionalDigits.n < 0
  THEN Thrown("Error", <<"Fractional digits must not be negative">>)
  ELSE IF fractionalDigits.n > 100
  THEN Thrown("Error", <<"Fractional digits must not exceed 100">>)
  ELSE IF ~IsNumeral(atomics)
  THEN Thrown("Error", <<"Invalid string format. Only non-negative integers in decimal representation supported.">>)
  ELSE Returned(DecimalToString(ParseNat(atomics), fractionalDigits.n))

-----------------------------------------------------------------------------
(* printableCoin, printableCoins *)

\* NARROW NO-BREAK SPACE (U+202F)
thinSpace == <<"U+202F">>

MicroExponent == 6

\* EN DASH (U+2013), the rendering of a missing coin
placeholder == <<"U+2013">>

\* a coin object; present = FALSE is null/undefined in place of the object
Coin(amount, denom) == [present |-> TRUE, amount |-> amount, denom |-> denom]
NoCoin == [present |-> FALSE, amount |-> Undefined, denom |-> Undefined]

\* a ?? b
Coalesce(a, b) == IF IsNullish(a) THEN b ELSE a

\* value + thinSpace + ticker, where value is the outcome of the conversion
WithTicker(value, ticker) ==
  IF value.kind = "throw" THEN value
  ELSE Returned(value.val \o thinSpace \o JSToString(ticker))

NativeRendering(coin, e) ==
  WithTicker(FromAtomicsToString(Coalesce(coin.amount, <<"0">>),
                                 Number(e.DISPLAY_DENOM_EXPONENT)),
             e.DISPLAY_DENOM)

MicroRendering(coin) ==
  WithTicker(FromAtomicsToString(Coalesce(coin.amount, <<"0">>),
                                 [nan |-> FALSE, n |-> MicroExponent]),
             ToUpperCase(Slice(coin.denom, 1, Len(coin.denom))))

\* the fallback, with the amount parsed as the other renderings parse it
PlainRendering_parsed(coin) ==
  WithTicker(FromAtomicsToString(Coalesce(coin.amount, <<"0">>), [nan |-> FALSE, n |-> 0]),
             coin.denom)

PlainRendering(coin) ==
  Returned(JSToString(coin.amount) \o thinSpace \o JSToString(coin.denom))

\* coin.denom?.startsWith("u")
DenomStartsWithU(coin) == ~IsNullish(coin.denom) /\ StartsWith(coin.denom, <<"u">>)

printableCoin_microFirst(coin, e) ==
  IF ~coin.present THEN Returned(placeholder)
  ELSE IF DenomStartsWithU(coin) THEN MicroRendering(coin)
  ELSE IF coin.denom = e.DENOM THEN NativeRendering(coin, e)
  ELSE PlainRendering(coin)

printableCoin(coin, e) ==
  IF ~coin.present THEN Returned(placeholder)
  ELSE IF coin.denom = e.DENOM THEN NativeRendering(coin, e)
  ELSE IF DenomStartsWithU(coin) THEN MicroRendering(coin)
  ELSE PlainRendering(coin)

printableCoins_firstOfMany(cs, e) ==
  IF Len(cs) = 0
  THEN Thrown("Error", <<"Implementation only supports exactly one coin entry.">>)
  ELSE printableCoin(cs[1], e)

printableCoins(cs, e) ==
  IF Len(cs) # 1
  THEN Thrown("Error", <<"Implementation only supports exactly one coin entry.">>)
  ELSE printableCoin(cs[1], e)

AmountChars == {"0", "7", "-"}

RECURSIVE StringsOver(_, _)
StringsOver(alphabet, n) ==
  IF n = 0 THEN {<<>>}
  ELSE LET shorter == StringsOver(alphabet, n - 1)
       IN shorter \cup {s \o <<c>> : s \in {t \in shorter : Len(t) = n - 1}, c \in alphabet}

Amounts == StringsOver(AmountChars, MaxAmountLen) \cup {Undefined, Null}

Denoms == {<<"u", "a", "t", "o", "m">>, <<"a", "t", "o", "m">>, <<"u">>, <<>>, Undefined}

Coins == {Coin(a, d) : a \in Amounts, d \in Denoms} \cup {NoCoin}

\* the coins used as members of lists of two
PairCoins == {c \in Coins : c.present => (c.amount \in {<<"7">>, <<"-">>} /\ c.denom # <<>>)}

CoinLists == {<<>>} \cup {<<c>> : c \in Coins} \cup {<<c, d>> : c, d \in PairCoins}

-----------------------------------------------------------------------------
(* Bytes, base64 and the hash *)

\* 2^n for n in 0..30
Pow2(n) ==
  <<1, 2, 4, 8, 16, 32, 64, 128, 256, 512, 1024, 2048, 4096, 8192, 16384, 32768,
    65536, 131072, 262144, 524288, 1048576, 2097152, 4194304, 8388608, 16777216,
    33554432, 67108864, 134217728, 268435456, 536870912, 1073741824>>[n + 1]

\* TRUE; x is evaluated when this is
Evaluated(x) == x = x

Min(a, b) == IF a < b THEN a ELSE b

\* a ^ b ^ c ^ d ^ e ^ f on the bit of weight p
XorBit(a, b, c, d, e, f, p) ==
  ((((a \div p) % 2) + ((b \div p) % 2) + ((c \div p) % 2) + ((d \div p) % 2)
      + ((e \div p) % 2) + ((f \div p) % 2)) % 2) * p

\* a ^ b ^ c ^ d ^ e ^ f on the five bits of weight w, 2w, 4w, 8w, 16w
XorBits(a, b, c, d, e, f, w) ==
  XorBit(a, b, c, d, e, f, w) + XorBit(a, b, c, d, e, f, 2 * w)
    + XorBit(a, b, c, d, e, f, 4 * w) + XorBit(a, b, c, d, e, f, 8 * w)
    + XorBit(a, b, c, d, e, f, 16 * w)

\* a ^ b ^ c ^ d ^ e ^ f on non-negative 30-bit values
Xor6(a, b, c, d, e, f) ==
  XorBits(a, b, c, d, e, f, 1) + XorBits(a, b, c, d, e, f, 32)
    + XorBits(a, b, c, d, e, f, 1024) + XorBits(a, b, c, d, e, f, 32768)
    + XorBits(a, b, c, d, e, f, 1048576) + XorBits(a, b, c, d, e, f, 33554432)

\* a ^ b on non-negative 30-bit values
BitXor(a, b) == Xor6(a, b, 0, 0, 0, 0)

Base64Chars == UpperChars \o LowerChars \o DigitChars \o <<"+", "/">>

Base64Value(c) == IF c = "=" THEN 0 ELSE IndexIn(c, Base64Chars) - 1

\* fromBase64 of a string whose length is a multiple of 4
fromBase64(s) ==
  LET pads == Cardinality({k \in 1..Len(s) : s[k] = "="})
      group(g) == Base64Value(s[4 * g + 1]) * 262144 + Base64Value(s[4 * g + 2]) * 4096
                    + Base64Value(s[4 * g + 3]) * 64 + Base64Value(s[4 * g + 4])
  IN [k \in 1..(3 * (Len(s) \div 4) - pads) |->
        LET v == group((k - 1) \div 3)
            r == (k - 1) % 3
        IN IF r = 0 THEN v \div 65536 ELSE IF r = 1 THEN (v \div 256) % 256 ELSE v % 256]

\* toBase64
toBase64(bytes) ==
  LET n == Len(bytes)
      byte(k) == IF k <= n THEN bytes[k] ELSE 0
      group(g) == byte(3 * g + 1) * 65536 + byte(3 * g + 2) * 256 + byte(3 * g + 3)
  IN [k \in 1..(4 * ((n + 2) \div 3)) |->
        LET g == (k - 1) \div 4
            r == (k - 1) % 4
        IN IF r >= 2 /\ 3 * g + r > n THEN "="
           ELSE Base64Chars[((group(g) \div Pow2(6 * (3 - r))) % 64) + 1]]

DigestLength == 64

\* The hash is a primitive of the program.  It is modelled as a fixed total
\* function from byte strings to 64-byte digests that depends on every byte
\* of its argument; the digest bytes are not those of SHA-512.
\* Absorb folds bytes[lo..hi] into h, in four quarters from left to right.
RECURSIVE Absorb(_, _, _, _)
Absorb(bytes, lo, hi, h) ==
  IF lo > hi THEN h
  ELSE IF lo = hi THEN (h * 31 + bytes[lo] + 1) % 65521
  ELSE LET q == ((hi - lo) \div 4) + 1
           q1 == Absorb(bytes, lo, Min(hi, lo + q - 1), h)
           q2 == Absorb(bytes, lo + q, Min(hi, lo + 2 * q - 1), q1)
           q3 == Absorb(bytes, lo + 2 * q, Min(hi, lo + 3 * q - 1), q2)
       IN CASE Evaluated(q1) /\ Evaluated(q2) /\ Evaluated(q3) ->
               Absorb(bytes, lo + 3 * q, hi, q3)

sha512(bytes) ==
  LET h == Absorb(bytes, 1, Len(bytes), 7)
  IN [k \in 1..DigestLength |-> ((h + k) * (k + 13) + (h \div 256)) % 256]

-----------------------------------------------------------------------------
(* Bech32 *)

Bech32Alphabet == 
  <<"q", "p", "z", "r", "y", "9", "x", "8", "g", "f", "2", "t", "v", "d", "w", "0", "s", "3", "j",
   "n", "5", "4", "k", "h", "c", "e", "6", "m", "u", "a", "7", "l">>

\* the last one is GRAVE ACCENT (U+0060)
PunctuationChars == <<"-", "$", "&", "%", "/", ".", ":", "+", "=", "'", "U+0060">>
PunctuationCodes == <<45, 36, 38, 37, 47, 46, 58, 43, 61, 39, 96>>

\* String.prototype.charCodeAt for the characters of the model
CharCode(c) ==
  IF c \in Range(LowerChars) THEN 96 + IndexIn(c, LowerChars)
  ELSE IF c \in Range(UpperChars) THEN 64 + IndexIn(c, UpperChars)
  ELSE IF c \in Range(DigitChars) THEN 47 + IndexIn(c, DigitChars)
  ELSE PunctuationCodes[IndexIn(c, PunctuationChars)]

polymodStep(pre) ==
  LET b == pre \div 33554432
  IN Xor6((pre % 33554432) * 32,
          IF b % 2 = 1 THEN 996825010 ELSE 0,
          IF (b \div 2) % 2 = 1 THEN 642813549 ELSE 0,
          IF (b \div 4) % 2 = 1 THEN 513874426 ELSE 0,
          IF (b \div 8) % 2 = 1 THEN 1027748829 ELSE 0,
          IF (b \div 16) % 2 = 1 THEN 705979059 ELSE 0)

\* chk = polymodStep(chk) ^ words[k] for k = lo..hi, in four quarters from
\* left to right
RECURSIVE PolymodRange(_, _, _, _)
PolymodRange(words, lo, hi, chk) ==
  IF lo > hi THEN chk
  ELSE IF lo = hi
  THEN (LET stepped == polymodStep(chk)
        IN CASE Evaluated(stepped) -> BitXor(stepped, words[lo]))
  ELSE LET q == ((hi - lo) \div 4) + 1
           q1 == PolymodRange(words, lo, Min(hi, lo + q - 1), chk)
           q2 == PolymodRange(words, lo + q, Min(hi, lo + 2 * q - 1), q1)
           q3 == PolymodRange(words, lo + 2 * q, Min(hi, lo + 3 * q - 1), q2)
       IN CASE Evaluated(q1) /\ Evaluated(q2) /\ Evaluated(q3) ->
               PolymodRange(words, lo + 3 * q, hi, q3)

PolymodWords(words, chk) ==
  CASE Evaluated(words) /\ Evaluated(chk) -> PolymodRange(words, 1, Len(words), chk)

PrefixValid(prefix) ==
  \A k \in 1..Len(prefix) : CharCode(prefix[k]) >= 33 /\ CharCode(prefix[k]) <= 126

\* prefixChk: the high bits of every character, one step, the low bits of
\* every character
prefixChk(prefix) ==
  PolymodWords([k \in 1..Len(prefix) |-> CharCode(prefix[k]) \div 32] \o <<0>>
                 \o [k \in 1..Len(prefix) |-> CharCode(prefix[k]) % 32], 1)

\* convert(data, inBits, outBits, pad) for inBits, outBits in {5, 8}: the bits
\* of the values, most significant first, regrouped; [ok, result, error].
\* Word j (0-based) of the output is cut out of the three values around it.
convert(values, inBits, outBits, pad) ==
  LET total == Len(values) * inBits
      bits == total % outBits
      value(k) == IF k <= Len(values) THEN values[k] ELSE 0
      word(j) ==
        LET first == (j * outBits) \div inBits
            window == value(first + 1) * Pow2(2 * inBits) + value(first + 2) * Pow2(inBits)
                        + value(first + 3)
        IN (window \div Pow2(3 * inBits - (j * outBits - first * inBits) - outBits))
             % Pow2(outBits)
      whole == [j \in 1..(total \div outBits) |-> word(j - 1)]
  IN IF pad
     THEN [ok |-> TRUE, error |-> <<>>,
           result |-> IF bits > 0 THEN Append(whole, word(total \div outBits)) ELSE whole]
     ELSE IF bits >= inBits
     THEN [ok |-> FALSE, error |-> <<"Excess padding">>, result |-> <<>>]
     ELSE IF bits > 0 /\ word(total \div outBits) # 0
     THEN [ok |-> FALSE, error |-> <<"Non-zero padding">>, result |-> <<>>]
     ELSE [ok |-> TRUE, error |-> <<>>, result |-> whole]

Bech32ChecksumLength == 6
Bech32DefaultLimit == 90
Bech32MinLength == 8

\* the six checksum words of a final checksum state
ChecksumWords(chk) ==
  [k \in 1..Bech32ChecksumLength |-> (chk \div Pow2((Bech32ChecksumLength - k) * 5)) % 32]

\* bech32.encode(prefix, words): an outcome
Bech32EncodeWords(prefix, words) ==
  IF IsNullish(prefix)
  THEN Thrown("TypeError", <<"Cannot read properties of undefined (reading 'length')">>)
  ELSE IF Len(prefix) + 7 + Len(words) > Bech32DefaultLimit
  THEN Thrown("TypeError", <<"Exceeds length limit">>)
  ELSE LET lowered == ToLowerCase(prefix)
       IN IF ~PrefixValid(lowered)
          THEN Thrown("Error", <<"Invalid prefix (">> \o lowered \o <<")">>)
          ELSE LET chk == PolymodWords(words \o [k \in 1..Bech32ChecksumLength |-> 0],
                                       prefixChk(lowered))
                   sum == ChecksumWords(BitXor(chk, 1))
               IN Returned(lowered \o <<"1">>
                             \o [k \in 1..Len(words) |-> Bech32Alphabet[words[k] + 1]]
                             \o [k \in 1..Bech32ChecksumLength |->
                                   Bech32Alphabet[sum[k] + 1]])

\* Bech32.encode(prefix, data): an outcome
Bech32Encode(prefix, bytes) == Bech32EncodeWords(prefix, convert(bytes, 8, 5, TRUE).result)

\* String.prototype.lastIndexOf("1"), 0-based, -1 when absent
LastIndexOfOne(s) ==
  IF \E k \in 1..Len(s) : s[k] = "1"
  THEN (CHOOSE k \in 1..Len(s) : s[k] = "1" /\ \A j \in (k + 1)..Len(s) : s[j] # "1") - 1
  ELSE 0 - 1

Bech32Failure(msg) == [ok |-> FALSE, prefix |-> <<>>, data |-> <<>>, error |-> msg]

\* Bech32.decode(address): [ok, prefix, data, error]; error is the message of
\* the Error that is thrown when ok is FALSE
Bech32Decode(address) ==
  IF Len(address) < Bech32MinLength
  THEN Bech32Failure(address \o <<" too short">>)
  ELSE IF address # ToLowerCase(address) /\ address # ToUpperCase(address)
  THEN Bech32Failure(<<"Mixed-case string ">> \o address)
  ELSE LET str == ToLowerCase(address)
           split == LastIndexOfOne(str)
       IN IF split = 0 - 1
          THEN Bech32Failure(<<"No separator character for ">> \o str)
          ELSE IF split = 0
          THEN Bech32Failure(<<"Missing prefix for ">> \o str)
          ELSE LET prefix == Slice(str, 0, split)
                   wordChars == Slice(str, split + 1, Len(str))
               IN IF Len(wordChars) < Bech32ChecksumLength
                  THEN Bech32Failure(<<"Data too short">>)
                  ELSE IF ~PrefixValid(prefix)
                  THEN Bech32Failure(<<"Invalid prefix (">> \o prefix \o <<")">>)
                  ELSE IF \E k \in 1..Len(wordChars) : wordChars[k] \notin Range(Bech32Alphabet)
                  THEN Bech32Failure(<<"Unknown character ">>
                         \o <<wordChars[CHOOSE k \in 1..Len(wordChars) :
                                /\ wordChars[k] \notin Range(Bech32Alphabet)
                                /\ \A j \in 1..(k - 1) : wordChars[j] \in Range(Bech32Alphabet)]>>)
                  ELSE LET all == [k \in 1..Len(wordChars) |->
                                     IndexIn(wordChars[k], Bech32Alphabet) - 1]
                           words == SubSeq(all, 1, Len(all) - Bech32ChecksumLength)
                           bytes == convert(words, 5, 8, FALSE)
                       IN IF PolymodWords(all, prefixChk(prefix)) # 1
                          THEN Bech32Failure(<<"Invalid checksum for ">> \o str)
                          ELSE IF ~bytes.ok
                          THEN Bech32Failure(bytes.error)
                          ELSE [ok |-> TRUE, prefix |-> prefix, data |-> bytes.result,
                                error |-> <<>>]

-----------------------------------------------------------------------------
(* Configuration (process.env) *)

uatom == <<"u", "a", "t", "o", "m">>
atom == <<"a", "t", "o", "m">>
ATOM == <<"A", "T", "O", "M">>
cosmos == <<"c", "o", "s", "m", "o", "s">>
juno == <<"j", "u", "n", "o">>

DefaultEnv ==
  [DENOM |-> uatom, DISPLAY_DENOM |-> ATOM, DISPLAY_DENOM_EXPONENT |-> <<"6">>,
   ADDRESS_PREFIX |-> cosmos, EXPLORER_LINK_TX |-> Undefined]

\* configurations that differ in what printableCoin reads
CoinEnvs ==
  {[DefaultEnv EXCEPT !.DENOM = d, !.DISPLAY_DENOM_EXPONENT = x] :
     d \in {uatom, atom, Undefined}, x \in {<<"6">>, <<"2">>, Undefined}}

\* configurations that differ in the address prefix
PrefixEnvs == {[DefaultEnv EXCEPT !.ADDRESS_PREFIX = p] : p \in {cosmos, juno, Undefined}}

ExplorerTemplates ==
  {Undefined, <<>>, <<"t">>, <<"t", "/", "%", "s">>, <<"%", "s", "/", "%", "s", "&">>}

\* configurations that differ in the explorer link template
ExplorerEnvs == {[DefaultEnv EXCEPT !.EXPLORER_LINK_TX = t] : t \in ExplorerTemplates}

-----------------------------------------------------------------------------
(* exampleAddress, examplePubkey *)

SeedAddress == 
  <<"c", "o", "s", "m", "o", "s", "1", "v", "q", "p", "j", "l", "j", "w",
  "s", "y", "n", "s", "n", "5", "8", "d", "u", "g", "z", "0", "w", "8", "u",
  "t", "7", "k", "u", "n", "7", "t", "8", "l", "s", "2", "q", "k", "m", "s",
  "q">>

SeedPubkey == 
  <<"A", "k", "d", "/", "q", "K", "M", "W", "d", "Z", "X", "y", "i", "M",
  "n", "S", "u", "6", "a", "F", "L", "p", "Q", "E", "G", "D", "O", "0", "i",
  "j", "y", "a", "l", "9", "m", "X", "U", "I", "c", "V", "a", "P", "N",
  "X">>

\* the index argument; omitted = TRUE is a call without the argument
NoIndex == [omitted |-> TRUE, n |-> 0]
Indexes == {NoIndex} \cup {[omitted |-> FALSE, n |-> k] : k \in 0..MaxIndex}

\* index || 0
usedIndex(idx) == IF idx.omitted THEN 0 ELSE idx.n

\* let data = Bech32.decode("cosmos1...").data, but kept from the previous call
exampleAddressSeed_kept ==
  IF Len(data) = Len(Bech32Decode(SeedAddress).data)
  THEN data
  ELSE Bech32Decode(SeedAddress).data

\* let data = Bech32.decode("cosmos1...").data
exampleAddressSeed == Bech32Decode(SeedAddress).data

\* data = sha512(data).slice(0, data.length)
hashAndTrim(d) == Slice(sha512(d), 0, Len(d))

\* index % 2 ? 0x02 : 0x03
parityByte(idx) == IF ~idx.omitted /\ idx.n % 2 # 0 THEN 2 ELSE 3

\* the loop body of examplePubkey without the assignment to data[0]
examplePubkeyStep_noForce(d, idx) == hashAndTrim(d)

\* the loop body of examplePubkey with the parity of the loop counter
examplePubkeyStep_counterParity(d, idx) ==
  [hashAndTrim(d) EXCEPT ![1] = IF i % 2 # 0 THEN 2 ELSE 3]

\* the loop body of examplePubkey
examplePubkeyStep(d, idx) == [hashAndTrim(d) EXCEPT ![1] = parityByte(idx)]

-----------------------------------------------------------------------------
(* checkAddress *)

AddressLength == 20

\* error.toString() of an Error with the message msg
ErrorToString(msg) == <<"Error", ": ">> \o msg

PrefixMessage(expected, actual) ==
  <<"Expected address prefix '">> \o JSToString(expected) \o <<"' but got '">>
    \o actual \o <<"'">>

LengthMessage == <<"Invalid address length in bech32 data. Must be 20 bytes.">>

\* checkAddress without the try/catch around Bech32.decode
checkAddress_uncaught(in, e) ==
  IF ~Truthy(in) THEN Returned(<<"Empty">>)
  ELSE LET d == Bech32Decode(in)
       IN IF ~d.ok THEN Thrown("Error", d.error)
          ELSE IF d.prefix # e.ADDRESS_PREFIX
          THEN Returned(PrefixMessage(e.ADDRESS_PREFIX, d.prefix))
          ELSE IF Len(d.data) # AddressLength THEN Returned(LengthMessage)
          ELSE Returned(Null)

\* checkAddress with the length check before the prefix check
checkAddress_lengthFirst(in, e) ==
  IF ~Truthy(in) THEN Returned(<<"Empty">>)
  ELSE LET d == Bech32Decode(in)
       IN IF ~d.ok THEN Returned(ErrorToString(d.error))
          ELSE IF Len(d.data) # AddressLength THEN Returned(LengthMessage)
          ELSE IF d.prefix # e.ADDRESS_PREFIX
          THEN Returned(PrefixMessage(e.ADDRESS_PREFIX, d.prefix))
          ELSE Returned(Null)

checkAddress(in, e) ==
  IF ~Truthy(in) THEN Returned(<<"Empty">>)
  ELSE LET d == Bech32Decode(in)
       IN IF ~d.ok THEN Returned(ErrorToString(d.error))
          ELSE IF d.prefix # e.ADDRESS_PREFIX
          THEN Returned(PrefixMessage(e.ADDRESS_PREFIX, d.prefix))
          ELSE IF Len(d.data) # AddressLength THEN Returned(LengthMessage)
          ELSE Returned(Null)

\* payloads of n bytes
Payload(n, seed) == [k \in 1..n |-> (k * seed + 3) % 256]

PayloadLengths == {0} \cup ((AddressLength - PayloadSlack)..(AddressLength + PayloadSlack))

\* well-formed addresses
GoodAddresses ==
  {Bech32Encode(p, Payload(n, seed)).val :
     p \in {cosmos, juno}, n \in PayloadLengths, seed \in {1, 7}}

\* well-formed bech32 whose words do not end on a byte boundary
OddWordAddresses ==
  {Bech32EncodeWords(cosmos, [k \in 1..n |-> 0] \o <<w>>).val : n \in {32}, w \in {0, 1}}
    \cup {Bech32EncodeWords(cosmos, <<0, 1>>).val}

OtherChar(c) == IF c = "q" THEN "p" ELSE "q"

\* what is left of the separator, and what is right of it
Hrp(a) == Slice(a, 0, LastIndexOfOne(a))
AfterSeparator(a) == Slice(a, LastIndexOfOne(a) + 1, Len(a))

Corruptions(a) ==
  { ToUpperCase(a),
    <<UpperChar(a[1])>> \o Tail(a),
    [a EXCEPT ![Len(a)] = OtherChar(a[Len(a)])],
    [a EXCEPT ![Len(a) - 1] = "b"],
    Hrp(a) \o AfterSeparator(a),
    <<"1">> \o AfterSeparator(a),
    Hrp(a) \o <<"1">> \o SliceLast(a, 5),
    Slice(a, 0, 7) }

CheckAddressInputs ==
  GoodAddresses \cup OddWordAddresses \cup UNION {Corruptions(a) : a \in GoodAddresses}
    \cup {<<>>, Undefined, Null}

-----------------------------------------------------------------------------
(* explorerLinkTx *)

\* String.prototype.indexOf("%s"), 0-based, -1 when absent
IndexOfPlaceholder(s) ==
  IF \E k \in 1..(Len(s) - 1) : s[k] = "%" /\ s[k + 1] = "s"
  THEN (CHOOSE k \in 1..(Len(s) - 1) :
          /\ s[k] = "%" /\ s[k + 1] = "s"
          /\ \A j \in 1..(k - 1) : ~(s[j] = "%" /\ s[j + 1] = "s")) - 1
  ELSE 0 - 1

\* GetSubstitution for a string pattern (no captures): the "$" patterns of the
\* replacement string are expanded
RECURSIVE GetSubstitution(_, _, _, _)
GetSubstitution(matched, before, after, replacement) ==
  IF replacement = <<>> THEN <<>>
  ELSE IF Head(replacement) = "$" /\ Len(replacement) >= 2
  THEN LET c == replacement[2]
           rest == SubSeq(replacement, 3, Len(replacement))
       IN IF c = "$" THEN <<"$">> \o GetSubstitution(matched, before, after, rest)
          ELSE IF c = "&" THEN matched \o GetSubstitution(matched, before, after, rest)
          ELSE IF c = "U+0060" THEN before \o GetSubstitution(matched, before, after, rest)
          ELSE IF c = "'" THEN after \o GetSubstitution(matched, before, after, rest)
          ELSE <<"$">> \o GetSubstitution(matched, before, after, Tail(replacement))
  ELSE <<Head(replacement)>> \o GetSubstitution(matched, before, after, Tail(replacement))

\* template.replace("%s", hash)
ReplacePlaceholder(template, hash) ==
  LET pos == IndexOfPlaceholder(template)
  IN IF pos = 0 - 1 THEN template
     ELSE LET before == Slice(template, 0, pos)
              after == Slice(template, pos + 2, Len(template))
          IN before \o GetSubstitution(<<"%", "s">>, before, after, JSToString(hash))
               \o after

explorerLinkTx(hash, e) ==
  IF Truthy(e.EXPLORER_LINK_TX)
  THEN Returned(ReplacePlaceholder(e.EXPLORER_LINK_TX, hash))
  ELSE Returned(Null)

HashChars == {"A", "$", "&"}

Hashes == StringsOver(HashChars, MaxHashLen)

-----------------------------------------------------------------------------
(* The calls *)

NoPrev == [fn |-> "none", index |-> NoIndex, outcome |-> NoOutcome]

InitWith(envs) ==
  /\ env \in envs
  /\ pc = "idle"
  /\ fn = "none"
  /\ input = Undefined
  /\ coins = <<>>
  /\ index = NoIndex
  /\ data = <<>>
  /\ i = 0
  /\ outcome = NoOutcome
  /\ prev = NoPrev

InitAbbreviate == InitWith({DefaultEnv})
InitCoins == InitWith(CoinEnvs)
InitExample == InitWith(PrefixEnvs)
InitCheckAddress == InitWith(PrefixEnvs)
InitExplorer == InitWith(ExplorerEnvs)

Init == InitWith({DefaultEnv})

CallAbbreviateLongString ==
  /\ pc = "idle"
  /\ \E s \in AbbreviateInputs :
       /\ input' = s
       /\ outcome' = Returned(abbreviateLongString(s))
  /\ fn' = "abbreviateLongString"
  /\ pc' = "done"
  /\ UNCHANGED <<env, coins, index, data, i, prev>>

CallPrintableCoin ==
  /\ pc = "idle"
  /\ \E c \in Coins :
       /\ coins' = <<c>>
       /\ outcome' = printableCoin(c, env)
  /\ fn' = "printableCoin"
  /\ pc' = "done"
  /\ UNCHANGED <<env, input, index, data, i, prev>>

CallPrintableCoins ==
  /\ pc = "idle"
  /\ \E cs \in CoinLists :
       /\ coins' = cs
       /\ outcome' = printableCoins(cs, env)
  /\ fn' = "printableCoins"
  /\ pc' = "done"
  /\ UNCHANGED <<env, input, index, data, i, prev>>

CallCheckAddress ==
  /\ pc = "idle"
  /\ \E a \in CheckAddressInputs :
       /\ input' = a
       /\ outcome' = checkAddress(a, env)
  /\ fn' = "checkAddress"
  /\ pc' = "done"
  /\ UNCHANGED <<env, coins, index, data, i, prev>>

CallExplorerLinkTx ==
  /\ pc = "idle"
  /\ \E h \in Hashes :
       /\ input' = h
       /\ outcome' = explorerLinkTx(h, env)
  /\ fn' = "explorerLinkTx"
  /\ pc' = "done"
  /\ UNCHANGED <<env, coins, index, data, i, prev>>

\* exampleAddress up to the loop
StartExampleAddress ==
  /\ pc = "idle"
  /\ \E idx \in Indexes : index' = idx
  /\ fn' = "exampleAddress"
  /\ data' = exampleAddressSeed
  /\ i' = 0
  /\ pc' = "loop"
  /\ UNCHANGED <<env, input, coins, outcome, prev>>

\* one iteration of the loop of exampleAddress
StepExampleAddress ==
  /\ pc = "loop"
  /\ fn = "exampleAddress"
  /\ i < usedIndex(index)
  /\ data' = hashAndTrim(data)
  /\ i' = i + 1
  /\ UNCHANGED <<env, pc, fn, input, coins, index, outcome, prev>>

\* exampleAddress after the loop
FinishExampleAddress ==
  /\ pc = "loop"
  /\ fn = "exampleAddress"
  /\ ~(i < usedIndex(index))
  /\ outcome' = Bech32Encode(env.ADDRESS_PREFIX, data)
  /\ pc' = "done"
  /\ UNCHANGED <<env, fn, input, coins, index, data, i, prev>>

\* examplePubkey up to the loop
StartExamplePubkey ==
  /\ pc = "idle"
  /\ \E idx \in Indexes : index' = idx
  /\ fn' = "examplePubkey"
  /\ data' = fromBase64(SeedPubkey)
  /\ i' = 0
  /\ pc' = "loop"
  /\ UNCHANGED <<env, input, coins, outcome, prev>>

\* one iteration of the loop of examplePubkey
StepExamplePubkey ==
  /\ pc = "loop"
  /\ fn = "examplePubkey"
  /\ i < usedIndex(index)
  /\ data' = examplePubkeyStep(data, index)
  /\ i' = i + 1
  /\ UNCHANGED <<env, pc, fn, input, coins, index, outcome, prev>>

\* examplePubkey after the loop
FinishExamplePubkey ==
  /\ pc = "loop"
  /\ fn = "examplePubkey"
  /\ ~(i < usedIndex(index))
  /\ outcome' = Returned(toBase64(data))
  /\ pc' = "done"
  /\ UNCHANGED <<env, fn, input, coins, index, data, i, prev>>

\* the caller takes the outcome; the next call can begin
Return ==
  /\ pc = "done"
  /\ pc' = "idle"
  /\ fn' = "none"
  /\ input' = Undefined
  /\ coins' = <<>>
  /\ index' = NoIndex
  /\ outcome' = NoOutcome
  /\ prev' = IF fn \in {"exampleAddress", "examplePubkey"}
             THEN [fn |-> fn, index |-> index, outcome |-> outcome]
             ELSE prev
  /\ UNCHANGED <<env, data, i>>

NextAbbreviate == CallAbbreviateLongString \/ Return
NextCoins == CallPrintableCoin \/ CallPrintableCoins \/ Return
NextExample ==
  \/ StartExampleAddress \/ StepExampleAddress \/ FinishExampleAddress
  \/ StartExamplePubkey \/ StepExamplePubkey \/ FinishExamplePubkey
  \/ Return
NextCheckAddress == CallCheckAddress \/ Return
NextExplorer == CallExplorerLinkTx \/ Return

Next ==
  \/ CallAbbreviateLongString
  \/ CallPrintableCoin
  \/ CallPrintableCoins
  \/ CallCheckAddress
  \/ CallExplorerLinkTx
  \/ StartExampleAddress \/ StepExampleAddress \/ FinishExampleAddress
  \/ StartExamplePubkey \/ StepExamplePubkey \/ FinishExamplePubkey
  \/ Return

\* calls of abbreviateLongString
SpecAbbreviate == InitAbbreviate /\ [][NextAbbreviate]_vars
\* calls of printableCoin and printableCoins under every configuration of the
\* native denom and the display exponent
SpecCoins == InitCoins /\ [][NextCoins]_vars
\* calls of exampleAddress and examplePubkey under every address prefix
SpecExample == InitExample /\ [][NextExample]_vars
\* calls of checkAddress under every address prefix
SpecCheckAddress == InitCheckAddress /\ [][NextCheckAddress]_vars
\* calls of explorerLinkTx under every explorer link template
SpecExplorer == InitExplorer /\ [][NextExplorer]_vars
\* calls of every function under the default configuration
Spec == Init /\ [][Next]_vars

-----------------------------------------------------------------------------
(* Properties *)

Done(f) == pc = "done" /\ fn = f

\* C1: checkAddress never throws: every call returns, and a failure of the
\* bech32 decoder is returned as the stringified error of the decoder.
C1_CheckAddressNeverThrows ==
  Done("checkAddress") =>
    /\ outcome.kind = "return"
    /\ (Truthy(input) /\ ~Bech32Decode(input).ok) =>
         outcome.val = <<"Error", ": ">> \o Bech32Decode(input).error

\* a call of checkAddress on an input the decoder rejects has returned
C1_Witness ==
  /\ Done("checkAddress")
  /\ Truthy(input)
  /\ ~Bech32Decode(input).ok
  /\ outcome.kind = "return"

\* C2: checkAddress returns null exactly for a non-empty input that decodes
\* to the configured prefix and a payload of 20 bytes; otherwise it returns
\* the message of the first failing check in the order Empty, decode failure,
\* prefix mismatch (naming both prefixes), length mismatch.
C2_CheckAddressResult ==
  Done("checkAddress") =>
    LET d == Bech32Decode(input)
        decodes == Truthy(input) /\ d.ok
        prefixOk == decodes /\ d.prefix = env.ADDRESS_PREFIX
    IN /\ (outcome = Returned(Null)) <=> (prefixOk /\ Len(d.data) = 20)
       /\ ~Truthy(input) => outcome = Returned(<<"Empty">>)
       /\ (Truthy(input) /\ ~d.ok) => outcome = Returned(<<"Error", ": ">> \o d.error)
       /\ (decodes /\ ~prefixOk) =>
            outcome = Returned(<<"Expected address prefix '">>
                                 \o JSToString(env.ADDRESS_PREFIX)
                                 \o <<"' but got '">> \o d.prefix \o <<"'">>)
       /\ (prefixOk /\ Len(d.data) # 20) =>
            outcome = Returned(<<"Invalid address length in bech32 data. Must be 20 bytes.">>)

\* an address with both a wrong prefix and a wrong length has been checked
C2_Witness ==
  /\ Done("checkAddress")
  /\ Truthy(input)
  /\ Bech32Decode(input).ok
  /\ env.ADDRESS_PREFIX # Undefined
  /\ Bech32Decode(input).prefix # env.ADDRESS_PREFIX
  /\ Len(Bech32Decode(input).data) \notin {0, 20}
  /\ outcome.val[1] = "Expected address prefix '"

\* C3: printableCoin renders a coin in exactly one of three ways, the native
\* denom first: native denom -> configured exponent and display ticker (also
\* when the denom starts with "u"); else a leading "u" -> exponent 6 and the
\* rest of the denom in upper case; else amount and denom verbatim.  Value
\* and ticker are separated by U+202F.
C3_PrintableCoinRendering ==
  (Done("printableCoin") /\ coins[1].present) =>
    LET c == coins[1]
        amount == IF IsNullish(c.amount) THEN <<"0">> ELSE c.amount
        native == FromAtomicsToString(amount, Number(env.DISPLAY_DENOM_EXPONENT))
        micro == FromAtomicsToString(amount, [nan |-> FALSE, n |-> 6])
        startsWithU == ~IsNullish(c.denom) /\ Len(c.denom) >= 1 /\ c.denom[1] = "u"
    IN IF c.denom = env.DENOM
       THEN outcome = IF native.kind = "throw" THEN native
                      ELSE Returned(native.val \o <<"U+202F">> \o env.DISPLAY_DENOM)
       ELSE IF startsWithU
       THEN outcome = IF micro.kind = "throw" THEN micro
                      ELSE Returned(micro.val \o <<"U+202F">> \o ToUpperCase(Tail(c.denom)))
       ELSE outcome = Returned(JSToString(c.amount) \o <<"U+202F">> \o JSToString(c.denom))

\* a coin of the native denom, which starts with "u", has been rendered with
\* a configured exponent other than 6
C3_Witness ==
  /\ Done("printableCoin")
  /\ coins[1].present
  /\ coins[1].denom = env.DENOM
  /\ env.DENOM = uatom
  /\ env.DISPLAY_DENOM_EXPONENT = <<"2">>
  /\ coins[1].amount = <<"7", "0", "7">>
  /\ outcome = Returned(<<"7", ".", "0", "7", "U+202F", "A", "T", "O", "M">>)

\* the amount is a non-negative integer numeral
ValidAmount(amount) == ~IsNullish(amount) /\ IsNumeral(amount)

\* the denom is one that printableCoin converts
Converted(coin) ==
  \/ coin.denom = env.DENOM
  \/ ~IsNullish(coin.denom) /\ Len(coin.denom) >= 1 /\ coin.denom[1] = "u"

\* C4 as stated: printableCoin throws for every coin whose amount is not a
\* valid non-negative integer numeral, whatever its denom; a missing coin
\* gives the placeholder.
C4_ThrowsOnEveryInvalidAmount ==
  Done("printableCoin") =>
    /\ (coins[1].present /\ ~ValidAmount(coins[1].amount)) => outcome.kind = "throw"
    /\ ~coins[1].present => outcome = Returned(<<"U+2013">>)

\* C4 amended: printableCoin throws the error of the decimal parser for every
\* coin whose denom is converted (native, or starting with "u") and whose
\* amount is present and not a non-negative integer numeral; a null or
\* undefined amount of such a coin is rendered as 0; a coin of any other
\* denom is returned verbatim and never throws; a missing coin gives the
\* placeholder.
C4_ThrowsOnInvalidConvertedAmount ==
  Done("printableCoin") =>
    LET c == coins[1]
    IN /\ (c.present /\ Converted(c) /\ ~IsNullish(c.amount) /\ ~IsNumeral(c.amount)) =>
            (outcome.kind = "throw" /\ outcome.val[1] = "Error")
       /\ (c.present /\ Converted(c) /\ IsNullish(c.amount)) =>
            outcome = printableCoin([c EXCEPT !.amount = <<"0">>], env)
       /\ (c.present /\ ~Converted(c)) =>
            outcome = Returned(JSToString(c.amount) \o <<"U+202F">> \o JSToString(c.denom))
       /\ ~c.present => outcome = Returned(<<"U+2013">>)

\* a coin with a malformed amount and a denom that starts with "u" and is
\* not the native denom has made printableCoin throw
C4_Witness ==
  /\ Done("printableCoin")
  /\ coins[1].present
  /\ coins[1].amount = <<"-", "7">>
  /\ coins[1].denom = uatom
  /\ env.DENOM = atom
  /\ outcome.kind = "throw"

\* C5: printableCoins raises its own error for every list whose length is
\* not 1, and for a list of one coin has the outcome of printableCoin on it.
C5_PrintableCoinsCardinality ==
  Done("printableCoins") =>
    /\ Len(coins) # 1 =>
         outcome = [kind |-> "throw",
                    val |-> <<"Error", ": ",
                              "Implementation only supports exactly one coin entry.">>]
    /\ Len(coins) = 1 => outcome = printableCoin(coins[1], env)

\* a list of two coins has been rejected
C5_Witness ==
  /\ Done("printableCoins")
  /\ Len(coins) = 2
  /\ coins[1].present
  /\ outcome.kind = "throw"

\* the first byte of the key that examplePubkey returned
ReturnedFirstByte == fromBase64(outcome.val)[1]

\* C6 as stated: for every index >= 1 the first byte of the key returned by
\* examplePubkey is 0x02 when index is even and 0x03 when index is odd.
C6_EvenIs02 ==
  (Done("examplePubkey") /\ usedIndex(index) >= 1) =>
    ReturnedFirstByte = IF index.n % 2 = 0 THEN 2 ELSE 3

\* after at least one iteration of examplePubkey, byte 0 of data is 0x03 for
\* an even index and 0x02 for an odd index, and so is it in the returned key
C6_ParityOfIndex ==
  /\ (fn = "examplePubkey" /\ pc \in {"loop", "done"} /\ i >= 1) =>
       data[1] = IF index.n % 2 = 0 THEN 3 ELSE 2
  /\ (Done("examplePubkey") /\ usedIndex(index) >= 1) =>
       ReturnedFirstByte = IF index.n % 2 = 0 THEN 3 ELSE 2

\* an iteration of examplePubkey replaces data by the first 33 bytes of its
\* hash, with byte 0 set by the parity of index
C6_Iteration ==
  (fn = "examplePubkey" /\ pc = "loop" /\ pc' = "loop") =>
    /\ i' = i + 1
    /\ data' = [k \in 1..33 |->
                  IF k = 1 THEN (IF index.n % 2 = 0 THEN 3 ELSE 2) ELSE sha512(data)[k]]

\* C6 amended: every iteration of examplePubkey replaces data by the first 33
\* bytes of its hash and then sets byte 0 to 0x03 if index is even, else
\* 0x02, by the parity of the index parameter (not of the loop counter); so
\* for every index >= 1 the first byte of the returned key is 0x03 when index
\* is even and 0x02 when index is odd.
C6_OddIs02 == [][C6_Iteration]_vars /\ []C6_ParityOfIndex

\* examplePubkey has returned for an even index of at least 2
C6_Witness ==
  /\ Done("examplePubkey")
  /\ index.n >= 2
  /\ index.n % 2 = 0
  /\ i = index.n
  /\ ReturnedFirstByte = 3

\* C7: exampleAddress is deterministic and keeps the length of the payload:
\* a call with the index and prefix of the previous call has its outcome; the
\* payload is 20 bytes after any number of iterations; with a configured
\* prefix the call returns; and index 0 or no index makes no iteration and
\* returns the seed payload encoded under the configured prefix.
C7_ExampleAddress ==
  /\ (fn = "exampleAddress" /\ pc \in {"loop", "done"}) => (Len(data) = 20 /\ i <= usedIndex(index))
  /\ Done("exampleAddress") =>
       /\ i = usedIndex(index)
       /\ env.ADDRESS_PREFIX # Undefined => outcome.kind = "return"
       /\ (prev.fn = "exampleAddress" /\ prev.index = index) => outcome = prev.outcome
       /\ usedIndex(index) = 0 =>
            outcome = Bech32Encode(env.ADDRESS_PREFIX, Bech32Decode(SeedAddress).data)

\* exampleAddress has returned for the second time in a row for an index of
\* at least 1, under a prefix other than that of the seed
C7_Witness ==
  /\ Done("exampleAddress")
  /\ prev.fn = "exampleAddress"
  /\ prev.index = index
  /\ index.n >= 1
  /\ env.ADDRESS_PREFIX = juno
  /\ outcome.kind = "return"
  /\ Bech32Decode(outcome.val).ok
  /\ Len(Bech32Decode(outcome.val).data) = 20

\* C8: abbreviateLongString returns a string shorter than 13 unchanged, and
\* for a longer one its first 5 characters, "...", and its last 5
\* characters, 13 characters in all; it always returns.
C8_Abbreviate ==
  Done("abbreviateLongString") =>
    /\ outcome.kind = "return"
    /\ Len(input) < 13 => outcome.val = input
    /\ Len(input) >= 13 =>
         /\ Len(outcome.val) = 13
         /\ outcome.val = [k \in 1..13 |->
                             IF k <= 5 THEN input[k]
                             ELSE IF k <= 8 THEN "."
                             ELSE input[Len(input) - 13 + k]]

\* a string of more than 13 characters has been abbreviated
C8_Witness ==
  /\ Done("abbreviateLongString")
  /\ Len(input) > 13
  /\ input[Len(input) - 4] = "b"
  /\ outcome.val[9] = "b"

\* the template with its first "%s" replaced by the hash
FirstPlaceholderReplaced(template, hash) ==
  IF \E k \in 1..(Len(template) - 1) : template[k] = "%" /\ template[k + 1] = "s"
  THEN LET k == CHOOSE k \in 1..(Len(template) - 1) :
                  /\ template[k] = "%" /\ template[k + 1] = "s"
                  /\ \A j \in 1..(k - 1) : ~(template[j] = "%" /\ template[j + 1] = "s")
       IN SubSeq(template, 1, k - 1) \o hash \o SubSeq(template, k + 2, Len(template))
  ELSE template

C10_PubkeyShape ==
  /\ (fn = "examplePubkey" /\ pc \in {"loop", "done"}) =>
       (Len(data) = 33 /\ data[1] \in {2, 3} /\ i <= usedIndex(index))
  /\ Done("examplePubkey") =>
       /\ outcome.kind = "return"
       /\ i = usedIndex(index)
       /\ Len(fromBase64(outcome.val)) = 33
       /\ fromBase64(outcome.val)[1] \in {2, 3}

\* examplePubkey has returned after two iterations or more, and the hash
\* alone would not have given the first byte
C10_Witness ==
  /\ Done("examplePubkey")
  /\ i >= 2
  /\ Len(fromBase64(outcome.val)) = 33
  /\ sha512(fromBase64(SeedPubkey))[1] \notin {2, 3}

=============================================================================
